---------------------------- MODULE Spec2Model ----------------------------
(***************************************************************************)
(* Model of the pills-bot medicine lookup adapter (src/main.go).           *)
(*                                                                         *)
(* The process reads its configuration in main, registers four handlers    *)
(* with the chat framework and then serves updates.  Every update is       *)
(* handled by one handler invocation; invocations run concurrently (the    *)
(* framework starts each in its own goroutine).  A handler that queries    *)
(* the medical API blocks in client.Do: that is the only point inside a    *)
(* handler where other invocations can be observed to interleave, so each  *)
(* such handler is two steps (up to the request / from the response).      *)
(*                                                                         *)
(* Go strings are TLA+ strings.  The user-visible Russian texts are        *)
(* written in Latin transliteration (the module is ASCII); each one is a   *)
(* distinct fixed string, as in the source.                                *)
(***************************************************************************)
EXTENDS Integers, Sequences, FiniteSets, TLC

\* ------------------------------------------------------------------------
\* Bounds of the model
\* ------------------------------------------------------------------------

\* Number of handler invocations that can be in flight at the same time.
MaxHandlers == 2

\* Longest list the API returns in the model (one more than the button cap).
MaxResp == 11

\* ------------------------------------------------------------------------
\* strconv / strings
\* ------------------------------------------------------------------------

Digits == <<"0", "1", "2", "3", "4", "5", "6", "7", "8", "9">>

IsDigit(c) == \E d \in 1..10 : Digits[d] = c

DigitVal(c) == (CHOOSE d \in 1..10 : Digits[d] = c) - 1

CharAt(s, i) == SubSeq(s, i, i)

\* strconv.Itoa: decimal digits, "-" in front of a negative number.
RECURSIVE FormatNat(_)
FormatNat(n) ==
    IF n < 10 THEN Digits[n + 1]
    ELSE FormatNat(n \div 10) \o Digits[(n % 10) + 1]

Itoa(n) == IF n < 0 THEN "-" \o FormatNat(0 - n) ELSE FormatNat(n)

\* The digit loop of strconv.Atoi's fast path: a non-digit ends the parse
\* with a syntax error.
RECURSIVE ParseDigits(_, _, _)
ParseDigits(s, i, acc) ==
    IF i > Len(s) THEN [val |-> acc, err |-> "nil"]
    ELSE IF ~IsDigit(CharAt(s, i)) THEN [val |-> 0, err |-> "syntax"]
    ELSE ParseDigits(s, i + 1, acc * 10 + DigitVal(CharAt(s, i)))

\* strconv.Atoi for strings shorter than 19 characters (its fast path, which
\* cannot overflow; every string of the model is that short): one optional
\* sign, then at least one digit, then nothing else.  On error the value is 0.
Atoi(s) ==
    IF Len(s) = 0 THEN [val |-> 0, err |-> "syntax"]
    ELSE LET signed == CharAt(s, 1) = "-" \/ CharAt(s, 1) = "+"
             body   == IF signed THEN SubSeq(s, 2, Len(s)) ELSE s
             r      == ParseDigits(body, 1, 0)
         IN  IF Len(body) = 0 THEN [val |-> 0, err |-> "syntax"]
             ELSE IF r.err # "nil" THEN r
             ELSE IF CharAt(s, 1) = "-" THEN [val |-> 0 - r.val, err |-> "nil"]
             ELSE r

\* strings.Split(s, sep) for a one-character separator: the pieces between
\* the separators, in order; a string without the separator is one piece.
RECURSIVE SplitFrom(_, _, _, _)
SplitFrom(s, sep, i, cur) ==
    IF i > Len(s) THEN <<cur>>
    ELSE IF CharAt(s, i) = sep THEN <<cur>> \o SplitFrom(s, sep, i + 1, "")
    ELSE SplitFrom(s, sep, i + 1, cur \o CharAt(s, i))

Split(s, sep) == SplitFrom(s, sep, 1, "")

\* bot.MatchTypePrefix
HasPrefix(s, p) == Len(s) >= Len(p) /\ SubSeq(s, 1, Len(p)) = p


\* ------------------------------------------------------------------------
\* State
\* ------------------------------------------------------------------------

VARIABLES
    env,              \* the process environment after godotenv.Load
    pc,               \* "init", "main", "running", "exited", "stopped", "crashed"
    exitStatus,       \* exit status of the process; -1 while it is alive
    ApiUrl,           \* package-level variables of main.go
    ApiKey,
    HoumeCountryID,
    TargetCountryID,
    err,
    inv               \* the handler invocations in flight, by goroutine

vars == <<env, pc, exitStatus, ApiUrl, ApiKey, HoumeCountryID, TargetCountryID, err, inv>>

Handlers == 1..MaxHandlers

\* The package-level variables as one value: what every function of the
\* package can read.
Globals ==
    [ApiUrl |-> ApiUrl, ApiKey |-> ApiKey, HoumeCountryID |-> HoumeCountryID,
     TargetCountryID |-> TargetCountryID, err |-> err]

\* The package-level variables when the process starts: ApiUrl has its
\* initialiser, the others their zero values.
InitialGlobals ==
    [ApiUrl |-> "https://api.pillintrip.com/search", ApiKey |-> "", HoumeCountryID |-> 0,
     TargetCountryID |-> 0, err |-> "nil"]

\* ------------------------------------------------------------------------
\* Startup: init and main
\* ------------------------------------------------------------------------

\* Environments the process is started in.
BotTokens == {"", "110201543:AAHdqTcv"}
ApiKeyValues == {"", "key-A"}
HomeCountryValues == {"", "0", "x", "7", "-3"}
TargetCountryValues == {"", "0", "66", "6x"}

Environments ==
    [dotenvLoaded : BOOLEAN, BOT_TOKEN : BotTokens, API_KEY : ApiKeyValues,
     HOME_COUNTRY_ID : HomeCountryValues, TARGET_COUNTRY_ID : TargetCountryValues]

\* log.Fatal writes the diagnostic and calls os.Exit(1); the os.Exit(2)
\* that follows it in the source is never reached.
FatalStatus == 1

\* func init: the process dies unless .env could be loaded.
init ==
    /\ pc = "init"
    /\ IF env.dotenvLoaded
       THEN pc' = "main" /\ exitStatus' = exitStatus
       ELSE pc' = "exited" /\ exitStatus' = FatalStatus
    /\ UNCHANGED <<env, ApiUrl, ApiKey, HoumeCountryID, TargetCountryID, err, inv>>

\* main with the fourth check testing the home country a second time.
mainStartupHomeCheckedTwice(e, g, botErr) ==
    LET exited(h) == [g |-> h, pc |-> "exited", exitStatus |-> FatalStatus]
        g1 == [g EXCEPT !.ApiKey = e.API_KEY]
        home == Atoi(e.HOME_COUNTRY_ID)
        g2 == [g1 EXCEPT !.err = home.err,
                         !.HoumeCountryID = IF home.err # "nil" THEN 0 ELSE home.val]
        target == Atoi(e.TARGET_COUNTRY_ID)
        g3 == [g2 EXCEPT !.err = target.err,
                         !.TargetCountryID = IF target.err # "nil" THEN 0 ELSE target.val]
    IN  IF Len(e.BOT_TOKEN) = 0 THEN exited(g)
        ELSE IF Len(g1.ApiKey) = 0 THEN exited(g1)
        ELSE IF g2.HoumeCountryID = 0 THEN exited(g2)
        ELSE IF g3.HoumeCountryID = 0 THEN exited(g3)
        ELSE IF botErr # "nil" THEN exited(g3)
        ELSE [g |-> g3, pc |-> "running", exitStatus |-> -1]

\* The assignments and checks of main in order, up to b.Start.  g is the
\* package-level state on entry, botErr the error of bot.New ("nil" when the
\* framework accepted the token).  The result is the package-level state and
\* how main went on: "running" (b.Start serves updates) or "exited".
mainStartup(e, g, botErr) ==
    LET exited(h) == [g |-> h, pc |-> "exited", exitStatus |-> FatalStatus]
        g1 == [g EXCEPT !.ApiKey = e.API_KEY]
        home == Atoi(e.HOME_COUNTRY_ID)
        g2 == [g1 EXCEPT !.err = home.err,
                         !.HoumeCountryID = IF home.err # "nil" THEN 0 ELSE home.val]
        target == Atoi(e.TARGET_COUNTRY_ID)
        g3 == [g2 EXCEPT !.err = target.err,
                         !.TargetCountryID = IF target.err # "nil" THEN 0 ELSE target.val]
    IN  IF Len(e.BOT_TOKEN) = 0 THEN exited(g)
        ELSE IF Len(g1.ApiKey) = 0 THEN exited(g1)
        ELSE IF g2.HoumeCountryID = 0 THEN exited(g2)
        ELSE IF g3.TargetCountryID = 0 THEN exited(g3)
        ELSE IF botErr # "nil" THEN exited(g3)
        ELSE [g |-> g3, pc |-> "running", exitStatus |-> -1]

main ==
    /\ pc = "main"
    /\ \E botErr \in {"nil", "unauthorized"} :
         LET r == mainStartup(env, Globals, botErr)
         IN  /\ pc' = r.pc
             /\ exitStatus' = r.exitStatus
             /\ ApiUrl' = r.g.ApiUrl
             /\ ApiKey' = r.g.ApiKey
             /\ HoumeCountryID' = r.g.HoumeCountryID
             /\ TargetCountryID' = r.g.TargetCountryID
             /\ err' = r.g.err
    /\ UNCHANGED <<env, inv>>

\* ------------------------------------------------------------------------
\* Data of the medical API
\* ------------------------------------------------------------------------

\* Button cap of both lists (the loops break at index 10).
MaxButtons == 10

\* Ids as the API may send them: Medicine.ID is a JSON string.
MedicineIDs == <<"42", "abc">>

Medicine(i) ==
    [ID |-> MedicineIDs[((i - 1) % Len(MedicineIDs)) + 1], Name |-> "med" \o Itoa(i),
     Components |-> "c" \o Itoa(i), Slug |-> "med-" \o Itoa(i), IsPopular |-> i % 2]

Analog(i) ==
    [AnalogID |-> Itoa(100 + i), AnalogName |-> "an" \o Itoa(i),
     AnalogSlug |-> "an-" \o Itoa(i), ComponentsMatch |-> i, ApplyingsMatch |-> i + 1,
     TreatmentsMatch |-> i + 2, Percentage |-> (i * 37) % 101]

ZeroMedicineInfo ==
    [MedicineID |-> "", MedicineName |-> "", MedicineSlug |-> "", DateRevision |-> ""]

AspirinInfo ==
    [MedicineID |-> "42", MedicineName |-> "Aspirin", MedicineSlug |-> "aspirin",
     DateRevision |-> "2024-01-01"]

AspirinHomeInfo ==
    [MedicineID |-> "42", MedicineName |-> "Aspirin (home)", MedicineSlug |-> "aspirin-home",
     DateRevision |-> "2023-05-05"]

\* Lengths of the lists the API answers with: none, one, the cap, beyond it.
RespLens == {0, 1, MaxButtons, MaxResp}

Ascending(n) == [i \in 1..n |-> Medicine(i)]
Descending(n) == [i \in 1..n |-> Medicine(n + 1 - i)]
AnalogList(n) == [i \in 1..n |-> Analog(i)]

\* What client.Do and the JSON decoder leave behind for a search call:
\* doErr is the transport error, decodeErr the decoder's, decoded the
\* SearchMedicineResponse struct after Decode (a failed decode may have
\* filled part of it).
SearchResponses ==
    {[doErr |-> "timeout", decodeErr |-> "nil", decoded |-> [Medicines |-> <<>>]]}
    \cup {[doErr |-> "nil", decodeErr |-> "unexpected EOF", decoded |-> [Medicines |-> l]] :
            l \in {<<>>, Ascending(1)}}
    \cup {[doErr |-> "nil", decodeErr |-> "nil", decoded |-> [Medicines |-> l]] :
            l \in {Ascending(n) : n \in RespLens} \cup {Descending(n) : n \in RespLens}}

\* The same for an analog call; decoded is the SearchAnalogResponse struct.
AnalogResponses ==
    {[doErr |-> "timeout", decodeErr |-> "nil",
      decoded |-> [MedicineInfo |-> ZeroMedicineInfo, HomeCountry |-> ZeroMedicineInfo,
                   Analogs |-> <<>>]]}
    \cup {[doErr |-> "nil", decodeErr |-> "unexpected EOF", decoded |-> d] :
            d \in {[MedicineInfo |-> ZeroMedicineInfo, HomeCountry |-> ZeroMedicineInfo,
                    Analogs |-> <<>>],
                   [MedicineInfo |-> AspirinInfo, HomeCountry |-> ZeroMedicineInfo,
                    Analogs |-> <<>>],
                   [MedicineInfo |-> AspirinInfo, HomeCountry |-> AspirinHomeInfo,
                    Analogs |-> <<>>],
                   [MedicineInfo |-> AspirinInfo, HomeCountry |-> AspirinHomeInfo,
                    Analogs |-> AnalogList(2)]}}
    \cup {[doErr |-> "nil", decodeErr |-> "nil",
           decoded |-> [MedicineInfo |-> AspirinInfo, HomeCountry |-> AspirinHomeInfo,
                        Analogs |-> AnalogList(n)]] : n \in RespLens}

NoResponse == [doErr |-> "pending", decodeErr |-> "pending", decoded |-> [none |-> TRUE]]

\* ------------------------------------------------------------------------
\* Chat messages
\* ------------------------------------------------------------------------

\* "Привет. Я помогу вам найти аналоги лекарств в Таиланде. Для поиска
\* введите название лекарства."
StartText ==
    "Privet. Ya pomogu vam naiti analogi lekarstv v Tailande. Dlya poiska vvedite nazvanie lekarstva."

\* "Мне не удалось ничего найти."
NothingFoundText == "Mne ne udalos nichego naiti."

\* "Вот что я нашел. Выберите лекарство, для которого нужно найти аналоги."
FoundText ==
    "Vot chto ya nashel. Vyberite lekarstvo, dlya kotorogo nuzhno naiti analogi."

\* fmt.Sprintf("Мне не удалось найти аналоги для \"%s\".", name)
NoAnalogsText(name) == "Mne ne udalos naiti analogi dlya \"" \o name \o "\"."

\* fmt.Sprintf("Вот аналоги для \"%s\":", name)
AnalogsText(name) == "Vot analogi dlya \"" \o name \o "\":"

\* fmt.Sprintf("Тут инфа по ценам для MedicineId=%d", medicineID)
ShowMedicineText(medicineID) == "Tut infa po cenam dlya MedicineId=" \o Itoa(medicineID)

MedicineURLBase == "https://pillintrip.com/ru/medicine/"

\* bot.SendMessageParams without and with a ReplyMarkup.
TextMessage(chatID, text) ==
    [ChatID |-> chatID, Text |-> text, HasReplyMarkup |-> FALSE, InlineKeyboard |-> <<>>]

KeyboardMessage(chatID, text, buttons) ==
    [ChatID |-> chatID, Text |-> text, HasReplyMarkup |-> TRUE, InlineKeyboard |-> buttons]

\* models.InlineKeyboardButton; a field the code leaves out is "".
Button(text, callbackData, url) == [Text |-> text, CallbackData |-> callbackData, URL |-> url]

\* ------------------------------------------------------------------------
\* The API calls
\* ------------------------------------------------------------------------

\* The SearchMedicineRequest that searchMedicines marshals and posts.
\* (json.Marshal of a struct of strings and ints and http.NewRequest with
\* the fixed method and URL cannot fail, so the request is always sent.)
searchMedicinesRequest(g, query) ==
    [URL |-> g.ApiUrl, ApiKey |-> g.ApiKey, State |-> "main_search",
     HoumeCountry |-> g.HoumeCountryID, Query |-> query]

\* What searchMedicines returns once client.Do has returned.
searchMedicines(resp) ==
    IF resp.doErr # "nil" THEN [medicines |-> <<>>, err |-> resp.doErr]
    ELSE IF resp.decodeErr # "nil" THEN [medicines |-> <<>>, err |-> resp.decodeErr]
    ELSE [medicines |-> resp.decoded.Medicines, err |-> "nil"]

\* The SearchAnalogRequest that searchAnalogs marshals and posts.
searchAnalogsRequest(g, medicineID) ==
    [URL |-> g.ApiUrl, ApiKey |-> g.ApiKey, State |-> "main_search",
     HoumeCountry |-> g.HoumeCountryID, TargetCountry |-> g.TargetCountryID,
     Language |-> "ru", Medicine |-> medicineID]

\* searchAnalogs returning medicine_info, not home_country, after a failed
\* decode.
searchAnalogsMedicineInfoOnError(resp) ==
    IF resp.doErr # "nil"
    THEN [analogs |-> <<>>, medicineInfo |-> ZeroMedicineInfo, err |-> resp.doErr]
    ELSE [analogs |-> resp.decoded.Analogs, medicineInfo |-> resp.decoded.MedicineInfo,
          err |-> resp.decodeErr]

\* What searchAnalogs returns once client.Do has returned.
searchAnalogs(resp) ==
    IF resp.doErr # "nil"
    THEN [analogs |-> <<>>, medicineInfo |-> ZeroMedicineInfo, err |-> resp.doErr]
    ELSE IF resp.decodeErr # "nil"
    THEN [analogs |-> resp.decoded.Analogs, medicineInfo |-> resp.decoded.HomeCountry,
          err |-> resp.decodeErr]
    ELSE [analogs |-> resp.decoded.Analogs, medicineInfo |-> resp.decoded.MedicineInfo,
          err |-> "nil"]

\* A function that posts its request once more after a failure.
requestsAfterDoRetry(calls, r) == IF r.err # "nil" THEN calls \o calls ELSE calls

\* The requests of an invocation after client.Do has returned with result r:
\* neither function sends a second request, whatever the first one gave.
requestsAfterDo(calls, r) == calls

\* A function that assigns the package-level err (= in place of :=).
packageErrAssigned(g, r) == r.err

\* The package-level err after a call: the functions declare their own err
\* with := and never assign the package-level one.
packageErrAfterCall(g, r) == g.err

\* ------------------------------------------------------------------------
\* The handlers
\* ------------------------------------------------------------------------

\* g is the package-level state, which every handler can read.
startHandler(g, update) == <<TextMessage(update.ChatID, StartText)>>

\* The loop breaking one index late.
RECURSIVE medicineButtonsBreakLate(_, _, _)
medicineButtonsBreakLate(medicines, index, buttons) ==
    IF index >= Len(medicines) \/ index = MaxButtons + 1 THEN buttons
    ELSE medicineButtonsBreakLate(medicines, index + 1,
             Append(buttons,
                    <<Button(medicines[index + 1].Name,
                             "search_analog:" \o medicines[index + 1].ID, "")>>))

\* The loop of searchMedicineHandler over the medicines, from index on
\* (index counts from 0 as in the source).
RECURSIVE medicineButtons(_, _, _)
medicineButtons(medicines, index, buttons) ==
    IF index >= Len(medicines) \/ index = MaxButtons THEN buttons
    ELSE medicineButtons(medicines, index + 1,
             Append(buttons,
                    <<Button(medicines[index + 1].Name,
                             "search_analog:" \o medicines[index + 1].ID, "")>>))

\* searchMedicineHandler without the test for an empty list.
searchMedicineHandlerReplyErrOnly(g, update, r) ==
    IF r.err # "nil"
    THEN <<TextMessage(update.ChatID, NothingFoundText)>>
    ELSE <<KeyboardMessage(update.ChatID, FoundText, medicineButtons(r.medicines, 0, <<>>))>>

\* The messages searchMedicineHandler sends after searchMedicines returned r.
searchMedicineHandlerReply(g, update, r) ==
    IF r.err # "nil" \/ Len(r.medicines) = 0
    THEN <<TextMessage(update.ChatID, NothingFoundText)>>
    ELSE <<KeyboardMessage(update.ChatID, FoundText, medicineButtons(r.medicines, 0, <<>>))>>

\* The head of both callback handlers: strings.Split(data, ":")[1] panics
\* (index out of range) when the data holds no colon; the error of Atoi is
\* dropped, so a part that is no number gives 0.
decodeMedicineID(data) ==
    LET parts == Split(data, ":")
    IN  IF Len(parts) < 2 THEN [panic |-> TRUE, medicineID |-> 0]
        ELSE [panic |-> FALSE, medicineID |-> Atoi(parts[2]).val]

\* The analog button with the callback payload the source has commented out.
analogButtonWithCallback(analog) ==
    Button(analog.AnalogName \o " (" \o Itoa(analog.Percentage) \o "%)",
           "show_medicine:" \o analog.AnalogID,
           MedicineURLBase \o analog.AnalogSlug)

\* One button of the analog list.
analogButton(analog) ==
    Button(analog.AnalogName \o " (" \o Itoa(analog.Percentage) \o "%)", "",
           MedicineURLBase \o analog.AnalogSlug)

\* The loop of searcheAnalogHandler over the analogs.
RECURSIVE analogButtons(_, _, _)
analogButtons(analogs, index, buttons) ==
    IF index >= Len(analogs) \/ index = MaxButtons THEN buttons
    ELSE analogButtons(analogs, index + 1,
             Append(buttons, <<analogButton(analogs[index + 1])>>))

\* searcheAnalogHandler reporting a failure with the request it had sent.
searcheAnalogHandlerReplyLeaky(g, update, r) ==
    IF r.err # "nil"
    THEN <<TextMessage(update.ChatID, r.err \o ": api_key=" \o g.ApiKey)>>
    ELSE IF Len(r.analogs) = 0
    THEN <<TextMessage(update.ChatID, NoAnalogsText(r.medicineInfo.MedicineName))>>
    ELSE <<KeyboardMessage(update.ChatID, AnalogsText(r.medicineInfo.MedicineName),
                           analogButtons(r.analogs, 0, <<>>))>>

\* The messages searcheAnalogHandler sends after searchAnalogs returned r.
searcheAnalogHandlerReply(g, update, r) ==
    IF r.err # "nil" \/ Len(r.analogs) = 0
    THEN <<TextMessage(update.ChatID, NoAnalogsText(r.medicineInfo.MedicineName))>>
    ELSE <<KeyboardMessage(update.ChatID, AnalogsText(r.medicineInfo.MedicineName),
                           analogButtons(r.analogs, 0, <<>>))>>

\* The messages showMedicineHandler sends once it has decoded the id.
showMedicineHandlerReply(g, update, medicineID) ==
    <<TextMessage(update.ChatID, ShowMedicineText(medicineID))>>

\* ------------------------------------------------------------------------
\* Updates and dispatch
\* ------------------------------------------------------------------------

MessageUpdate(text) ==
    [HasMessage |-> TRUE, Text |-> text, HasCallbackQuery |-> FALSE, CallbackQueryID |-> "",
     Data |-> "", ChatID |-> 11]

CallbackUpdate(data) ==
    [HasMessage |-> FALSE, Text |-> "", HasCallbackQuery |-> TRUE, CallbackQueryID |-> "cq1",
     Data |-> data, ChatID |-> 12]

NoUpdate ==
    [HasMessage |-> FALSE, Text |-> "", HasCallbackQuery |-> FALSE, CallbackQueryID |-> "",
     Data |-> "", ChatID |-> 0]

\* The callback payloads on the buttons the adapter sends: every button of
\* every message a handler can send for a response of the model.
EmittedPayloads ==
    LET sent == {searchMedicineHandlerReply(InitialGlobals, MessageUpdate("aspirin"),
                                            searchMedicines(resp))[1] :
                    resp \in SearchResponses}
                \cup {searcheAnalogHandlerReply(InitialGlobals, CallbackUpdate(""),
                                                searchAnalogs(resp))[1] :
                         resp \in AnalogResponses}
    IN  {m.InlineKeyboard[row][1].CallbackData :
            <<m, row>> \in {<<m, row>> \in sent \X (1..MaxResp) :
                               row <= Len(m.InlineKeyboard)}}
        \ {""}

\* The updates the framework delivers: text messages, clicks on the buttons
\* the adapter sent, and callback queries with other data.
Updates ==
    {MessageUpdate(t) : t \in {"/start", "aspirin"}}
    \cup {CallbackUpdate(d) : d \in EmittedPayloads}
    \cup {CallbackUpdate(d) : d \in {"search_analog", "show_medicine", "show_medicine:7",
                                     "other:1"}}

\* The handler the framework picks for an update, from the registrations of
\* main: "/start" exactly, the two callback prefixes, else the default.
findHandler(update) ==
    IF update.HasMessage /\ update.Text = "/start" THEN "startHandler"
    ELSE IF update.HasCallbackQuery /\ HasPrefix(update.Data, "search_analog")
    THEN "searcheAnalogHandler"
    ELSE IF update.HasCallbackQuery /\ HasPrefix(update.Data, "show_medicine")
    THEN "showMedicineHandler"
    ELSE "searchMedicineHandler"

\* The updates the framework hands to each handler.
Routed(handler) == {u \in Updates : findHandler(u) = handler}
StartUpdates == Routed("startHandler")
SearchMedicineUpdates == Routed("searchMedicineHandler")
SearcheAnalogUpdates == Routed("searcheAnalogHandler")
ShowMedicineUpdates == Routed("showMedicineHandler")

\* The updates of the two callback handlers, each with what the head of the
\* handler makes of its data.
SearcheAnalogInputs == {<<u, decodeMedicineID(u.Data)>> : u \in SearcheAnalogUpdates}
ShowMedicineInputs == {<<u, decodeMedicineID(u.Data)>> : u \in ShowMedicineUpdates}

\* ------------------------------------------------------------------------
\* Handler invocations
\* ------------------------------------------------------------------------

\* A goroutine slot without an invocation.
Idle ==
    [handler |-> "none", pc |-> "idle", update |-> NoUpdate, medicineID |-> 0,
     acks |-> <<>>, calls |-> <<>>, resp |-> NoResponse, msgs |-> <<>>]

\* A slot can take a new invocation when the previous one has ended.
Free(i) == inv[i].pc \in {"idle", "done", "panicked"}

Invocation(handler, update) == [Idle EXCEPT !.handler = handler, !.update = update]

\* os.Interrupt cancels the context, b.Start returns and main ends; the
\* goroutines of the handlers end with the process.
Interrupt ==
    /\ pc = "running"
    /\ pc' = "stopped"
    /\ exitStatus' = 0
    /\ inv' = [i \in Handlers |-> Idle]
    /\ UNCHANGED <<env, ApiUrl, ApiKey, HoumeCountryID, TargetCountryID, err>>


\* startHandler, whole.
StartHandler(i) ==
    /\ pc = "running"
    /\ Free(i)
    /\ \E u \in StartUpdates :
         inv' = [inv EXCEPT ![i] = [Invocation("startHandler", u) EXCEPT
                                          !.pc = "done",
                                          !.msgs = startHandler(Globals, u)]]
    /\ UNCHANGED <<env, pc, exitStatus, ApiUrl, ApiKey, HoumeCountryID, TargetCountryID, err>>

\* searchMedicineHandler up to client.Do inside searchMedicines (or to its
\* return, for an update without a message).
SearchMedicineCall(i) ==
    /\ pc = "running"
    /\ Free(i)
    /\ \E u \in SearchMedicineUpdates :
         inv' = [inv EXCEPT ![i] =
                      IF ~u.HasMessage
                      THEN [Invocation("searchMedicineHandler", u) EXCEPT !.pc = "done"]
                      ELSE [Invocation("searchMedicineHandler", u) EXCEPT
                               !.pc = "waiting",
                               !.calls = <<searchMedicinesRequest(Globals, u.Text)>>]]
    /\ UNCHANGED <<env, pc, exitStatus, ApiUrl, ApiKey, HoumeCountryID, TargetCountryID, err>>

\* searchMedicineHandler from the return of client.Do to its end.
SearchMedicineReturn(i) ==
    /\ pc = "running"
    /\ inv[i].handler = "searchMedicineHandler"
    /\ inv[i].pc = "waiting"
    /\ \E resp \in SearchResponses :
         LET r == searchMedicines(resp)
         IN  /\ inv' = [inv EXCEPT ![i] = [@ EXCEPT
                          !.pc = "done",
                          !.resp = resp,
                          !.calls = requestsAfterDo(@, r),
                          !.msgs = searchMedicineHandlerReply(Globals, inv[i].update, r)]]
             /\ err' = packageErrAfterCall(Globals, r)
    /\ UNCHANGED <<env, pc, exitStatus, ApiUrl, ApiKey, HoumeCountryID, TargetCountryID>>

\* A panic in a handler goroutine: the framework is not part of the source,
\* so either it recovers (the invocation just ends) or the process dies with
\* Go's exit status for an unrecovered panic.
PanicOutcome(recovered) ==
    /\ pc' = IF recovered THEN pc ELSE "crashed"
    /\ exitStatus' = IF recovered THEN exitStatus ELSE 2

\* searcheAnalogHandler up to client.Do inside searchAnalogs.
SearcheAnalogCall(i) ==
    /\ pc = "running"
    /\ Free(i)
    /\ \E input \in SearcheAnalogInputs :
         LET u == input[1]
             d == input[2]
             started == [Invocation("searcheAnalogHandler", u) EXCEPT
                            !.acks = <<u.CallbackQueryID>>]
         IN  IF d.panic
             THEN /\ inv' = [inv EXCEPT ![i] = [started EXCEPT !.pc = "panicked"]]
                  /\ \E recovered \in BOOLEAN : PanicOutcome(recovered)
             ELSE /\ inv' = [inv EXCEPT ![i] = [started EXCEPT
                                  !.pc = "waiting",
                                  !.medicineID = d.medicineID,
                                  !.calls = <<searchAnalogsRequest(Globals, d.medicineID)>>]]
                  /\ UNCHANGED <<pc, exitStatus>>
    /\ UNCHANGED <<env, ApiUrl, ApiKey, HoumeCountryID, TargetCountryID, err>>

\* searcheAnalogHandler from the return of client.Do to its end.
SearcheAnalogReturn(i) ==
    /\ pc = "running"
    /\ inv[i].handler = "searcheAnalogHandler"
    /\ inv[i].pc = "waiting"
    /\ \E resp \in AnalogResponses :
         LET r == searchAnalogs(resp)
         IN  /\ inv' = [inv EXCEPT ![i] = [@ EXCEPT
                          !.pc = "done",
                          !.resp = resp,
                          !.calls = requestsAfterDo(@, r),
                          !.msgs = searcheAnalogHandlerReply(Globals, inv[i].update, r)]]
             /\ err' = packageErrAfterCall(Globals, r)
    /\ UNCHANGED <<env, pc, exitStatus, ApiUrl, ApiKey, HoumeCountryID, TargetCountryID>>

\* showMedicineHandler, whole.
ShowMedicineHandler(i) ==
    /\ pc = "running"
    /\ Free(i)
    /\ \E input \in ShowMedicineInputs :
         LET u == input[1]
             d == input[2]
             started == [Invocation("showMedicineHandler", u) EXCEPT
                            !.acks = <<u.CallbackQueryID>>]
         IN  IF d.panic
             THEN /\ inv' = [inv EXCEPT ![i] = [started EXCEPT !.pc = "panicked"]]
                  /\ \E recovered \in BOOLEAN : PanicOutcome(recovered)
             ELSE /\ inv' = [inv EXCEPT ![i] = [started EXCEPT
                                  !.pc = "done",
                                  !.medicineID = d.medicineID,
                                  !.msgs = showMedicineHandlerReply(Globals, u,
                                                                    d.medicineID)]]
                  /\ UNCHANGED <<pc, exitStatus>>
    /\ UNCHANGED <<env, ApiUrl, ApiKey, HoumeCountryID, TargetCountryID, err>>

\* ------------------------------------------------------------------------
\* Specification
\* ------------------------------------------------------------------------

Init ==
    /\ env \in Environments
    /\ pc = "init"
    /\ exitStatus = -1
    /\ ApiUrl = InitialGlobals.ApiUrl
    /\ ApiKey = InitialGlobals.ApiKey
    /\ HoumeCountryID = InitialGlobals.HoumeCountryID
    /\ TargetCountryID = InitialGlobals.TargetCountryID
    /\ err = InitialGlobals.err
    /\ inv = [i \in Handlers |-> Idle]

Next ==
    \/ init
    \/ main
    \/ Interrupt
    \/ \E i \in Handlers :
         \/ StartHandler(i)
         \/ SearchMedicineCall(i)
         \/ SearchMedicineReturn(i)
         \/ SearcheAnalogCall(i)
         \/ SearcheAnalogReturn(i)
         \/ ShowMedicineHandler(i)

Spec == Init /\ [][Next]_vars

\* ------------------------------------------------------------------------
\* Properties
\* ------------------------------------------------------------------------

Min(a, b) == IF a < b THEN a ELSE b

\* Invocation i is a finished searchMedicineHandler run on a text message.
SearchDone(i) ==
    /\ inv[i].handler = "searchMedicineHandler"
    /\ inv[i].pc = "done"
    /\ inv[i].update.HasMessage

\* Invocation i is a finished searcheAnalogHandler run.
AnalogDone(i) ==
    /\ inv[i].handler = "searcheAnalogHandler"
    /\ inv[i].pc = "done"

Succeeded(resp) == resp.doErr = "nil" /\ resp.decodeErr = "nil"

\* C1: a search that succeeds with N >= 1 medicines is answered by exactly
\* one message whose keyboard has min(N, 10) rows; row k is one button for
\* the k-th medicine of the response, with the payload "search_analog:" + id.
C1_SearchButtons ==
    \A i \in Handlers :
        (SearchDone(i) /\ Succeeded(inv[i].resp)
            /\ Len(inv[i].resp.decoded.Medicines) >= 1) =>
        LET medicines == inv[i].resp.decoded.Medicines
            rows == Min(Len(medicines), 10)
        IN  /\ Len(inv[i].msgs) = 1
            /\ inv[i].msgs[1].ChatID = inv[i].update.ChatID
            /\ inv[i].msgs[1].HasReplyMarkup
            /\ Len(inv[i].msgs[1].InlineKeyboard) = rows
            /\ \A k \in 1..rows :
                 inv[i].msgs[1].InlineKeyboard[k] =
                     <<[Text |-> medicines[k].Name,
                        CallbackData |-> "search_analog:" \o medicines[k].ID,
                        URL |-> ""]>>

\* A search answered with more than 10 medicines, in descending catalogue
\* order, has been rendered as 10 rows.
C1_Witness ==
    \E i \in Handlers :
        /\ SearchDone(i) /\ Succeeded(inv[i].resp)
        /\ Len(inv[i].resp.decoded.Medicines) > 10
        /\ inv[i].resp.decoded.Medicines[1].Name # "med1"
        /\ Len(inv[i].msgs) = 1
        /\ Len(inv[i].msgs[1].InlineKeyboard) = 10

\* C2: a search that ends in a transport error, a decode error or an empty
\* list is answered by exactly one message, the fixed "nothing found" text,
\* without a keyboard.
C2_NothingFound ==
    \A i \in Handlers :
        (SearchDone(i)
            /\ (~Succeeded(inv[i].resp) \/ Len(inv[i].resp.decoded.Medicines) = 0)) =>
        inv[i].msgs = <<[ChatID |-> inv[i].update.ChatID, Text |-> NothingFoundText,
                         HasReplyMarkup |-> FALSE, InlineKeyboard |-> <<>>]>>

\* All three causes have been answered, one of them a decode error that
\* left a medicine in the struct.
C2_Witness ==
    /\ \E i \in Handlers :
         /\ SearchDone(i)
         /\ inv[i].resp.decodeErr # "nil"
         /\ Len(inv[i].resp.decoded.Medicines) > 0
         /\ inv[i].msgs[1].Text = NothingFoundText
    /\ \E i \in Handlers :
         /\ SearchDone(i)
         /\ \/ inv[i].resp.doErr # "nil"
            \/ Succeeded(inv[i].resp) /\ Len(inv[i].resp.decoded.Medicines) = 0
         /\ inv[i].msgs[1].Text = NothingFoundText

\* The id a search button carries: what follows "search_analog:".
PayloadID(data) == SubSeq(data, Len("search_analog:") + 1, Len(data))

\* C3: for a click on a button the search step emitted, the analog request
\* carries the button's id under Medicine, the configured country ids and
\* the language "ru".
C3_IdReachesApi ==
    \A i \in Handlers :
        (inv[i].handler = "searcheAnalogHandler"
            /\ inv[i].update.Data \in EmittedPayloads
            /\ inv[i].pc \in {"waiting", "done"}) =>
        /\ Len(inv[i].calls) = 1
        /\ Itoa(inv[i].calls[1].Medicine) = PayloadID(inv[i].update.Data)
        /\ inv[i].calls[1].HoumeCountry = HoumeCountryID
        /\ inv[i].calls[1].TargetCountry = TargetCountryID
        /\ inv[i].calls[1].Language = "ru"

\* C4: an analog call that succeeds with M >= 1 analogs is answered by
\* exactly one message whose keyboard has min(M, 10) rows; row k is one
\* button labelled "<name> (<percentage>%)" that opens the base path followed
\* by the slug of the k-th analog and carries no callback payload; and no
\* button of any message carries a show_medicine payload.
C4_AnalogButtons ==
    /\ \A i \in Handlers :
         (AnalogDone(i) /\ Succeeded(inv[i].resp)
             /\ Len(inv[i].resp.decoded.Analogs) >= 1) =>
         LET analogs == inv[i].resp.decoded.Analogs
             rows == Min(Len(analogs), 10)
         IN  /\ Len(inv[i].msgs) = 1
             /\ inv[i].msgs[1].ChatID = inv[i].update.ChatID
             /\ inv[i].msgs[1].HasReplyMarkup
             /\ Len(inv[i].msgs[1].InlineKeyboard) = rows
             /\ \A k \in 1..rows :
                  inv[i].msgs[1].InlineKeyboard[k] =
                      <<[Text |-> analogs[k].AnalogName \o " ("
                                    \o Itoa(analogs[k].Percentage) \o "%)",
                         CallbackData |-> "",
                         URL |-> "https://pillintrip.com/ru/medicine/"
                                    \o analogs[k].AnalogSlug]>>
    /\ \A i \in Handlers :
         \A m \in 1..Len(inv[i].msgs) :
           \A k \in 1..Len(inv[i].msgs[m].InlineKeyboard) :
             \A b \in 1..Len(inv[i].msgs[m].InlineKeyboard[k]) :
               ~HasPrefix(inv[i].msgs[m].InlineKeyboard[k][b].CallbackData, "show_medicine")

\* An analog call answered with more than 10 analogs has been rendered as
\* 10 rows.
C4_Witness ==
    \E i \in Handlers :
        /\ AnalogDone(i) /\ Succeeded(inv[i].resp)
        /\ Len(inv[i].resp.decoded.Analogs) > 10
        /\ Len(inv[i].msgs) = 1
        /\ Len(inv[i].msgs[1].InlineKeyboard) = 10
        /\ inv[i].msgs[1].InlineKeyboard[10][1].URL # ""

\* C5: an analog call that fails or gives no analogs is answered by exactly
\* one message "no analogs for <name>" without a keyboard, whatever a failed
\* decode left in the analog list; <name> is medicine_info's name after a
\* successful call, home_country's after a failed decode and empty after a
\* failed request.
C5_NoAnalogs ==
    \A i \in Handlers :
        (AnalogDone(i)
            /\ (~Succeeded(inv[i].resp) \/ Len(inv[i].resp.decoded.Analogs) = 0)) =>
        LET name == IF inv[i].resp.doErr # "nil" THEN ""
                    ELSE IF inv[i].resp.decodeErr # "nil"
                    THEN inv[i].resp.decoded.HomeCountry.MedicineName
                    ELSE inv[i].resp.decoded.MedicineInfo.MedicineName
        IN  inv[i].msgs = <<[ChatID |-> inv[i].update.ChatID, Text |-> NoAnalogsText(name),
                             HasReplyMarkup |-> FALSE, InlineKeyboard |-> <<>>]>>

\* A failed decode that left analogs and both infos in the struct has been
\* answered.
C5_Witness ==
    \E i \in Handlers :
        /\ AnalogDone(i)
        /\ inv[i].resp.decodeErr # "nil"
        /\ Len(inv[i].resp.decoded.Analogs) > 0
        /\ inv[i].resp.decoded.HomeCountry.MedicineName
              # inv[i].resp.decoded.MedicineInfo.MedicineName
        /\ Len(inv[i].msgs) = 1
        /\ ~inv[i].msgs[1].HasReplyMarkup

\* The package-level variables.
Package == <<ApiUrl, ApiKey, HoumeCountryID, TargetCountryID, err>>

\* Every request sent carries the endpoint, the API key and the country ids
\* of the environment the process was started in.
RequestsCarryConfig ==
    \A i \in Handlers :
        \A c \in 1..Len(inv[i].calls) :
            /\ inv[i].calls[c].URL = "https://api.pillintrip.com/search"
            /\ inv[i].calls[c].ApiKey = env.API_KEY
            /\ Itoa(inv[i].calls[c].HoumeCountry) = env.HOME_COUNTRY_ID
            /\ inv[i].handler = "searcheAnalogHandler" =>
                   Itoa(inv[i].calls[c].TargetCountry) = env.TARGET_COUNTRY_ID

\* C6: once b.Start serves updates no step writes a package-level variable,
\* whatever handlers run and however they interleave, and every request
\* carries the configuration loaded at startup.
C6_ConfigReadOnly ==
    /\ []RequestsCarryConfig
    /\ [][pc = "running" => Package' = Package]_vars

\* Two invocations at once: one has failed in its call and ended, the other
\* is blocked in its call.
C6_Witness ==
    \E i, j \in Handlers :
        /\ inv[i].pc = "done" /\ Len(inv[i].calls) = 1 /\ ~Succeeded(inv[i].resp)
        /\ inv[j].pc = "waiting" /\ Len(inv[j].calls) = 1

\* The decimal strings of the integers a country id of the model can be.
IsNonZeroInteger(s) == \E n \in (-100..100) \ {0} : Itoa(n) = s
IsPositiveInteger(s) == \E n \in 1..100 : Itoa(n) = s

StartupOver == pc \notin {"init", "main"}

Served == pc \in {"running", "stopped", "crashed"} \/ \E i \in Handlers : inv[i] # Idle

NothingServed ==
    /\ pc = "exited"
    /\ exitStatus > 0
    /\ \A i \in Handlers : inv[i] = Idle

\* C7 as stated: updates are served only with a non-empty token and key and
\* two positive country ids; any other configuration ends startup in a fatal
\* exit with nothing served.
C7_PositiveIdsRequired ==
    LET good == /\ Len(env.BOT_TOKEN) > 0
                /\ Len(env.API_KEY) > 0
                /\ IsPositiveInteger(env.HOME_COUNTRY_ID)
                /\ IsPositiveInteger(env.TARGET_COUNTRY_ID)
    IN  /\ Served => good
        /\ (StartupOver /\ ~good) => NothingServed

\* C7, amended: updates are served only with a non-empty token and key and
\* two country ids that are integers other than 0 (a negative id is
\* accepted); a missing value and a country id that is no number or is 0 end
\* startup in a fatal exit with non-zero status, with no update handled and
\* no request sent.
C7_NonZeroIdsRequired ==
    LET good == /\ Len(env.BOT_TOKEN) > 0
                /\ Len(env.API_KEY) > 0
                /\ IsNonZeroInteger(env.HOME_COUNTRY_ID)
                /\ IsNonZeroInteger(env.TARGET_COUNTRY_ID)
    IN  /\ Served => good
        /\ (StartupOver /\ ~good) => NothingServed

\* Startup has ended in the fatal exit over a home country that is no number,
\* everything else being in place.
C7_Witness ==
    /\ pc = "exited"
    /\ exitStatus = 1
    /\ env.dotenvLoaded
    /\ Len(env.BOT_TOKEN) > 0
    /\ Len(env.API_KEY) > 0
    /\ env.HOME_COUNTRY_ID = "x"
    /\ env.TARGET_COUNTRY_ID = "66"
    /\ ApiKey = env.API_KEY
    /\ \A i \in Handlers : inv[i] = Idle

\* What invocation rec has sent to the chat, computed again with g as the
\* package-level state.
ChatOutput(g, rec) ==
    IF rec.pc # "done" THEN <<>>
    ELSE IF rec.handler = "startHandler" THEN startHandler(g, rec.update)
    ELSE IF rec.handler = "searchMedicineHandler"
    THEN IF rec.update.HasMessage
         THEN searchMedicineHandlerReply(g, rec.update, searchMedicines(rec.resp))
         ELSE <<>>
    ELSE IF rec.handler = "searcheAnalogHandler"
    THEN searcheAnalogHandlerReply(g, rec.update, searchAnalogs(rec.resp))
    ELSE IF rec.handler = "showMedicineHandler"
    THEN showMedicineHandlerReply(g, rec.update, rec.medicineID)
    ELSE <<>>

\* C8: what an invocation sends to the chat is what the same update and the
\* same API response give under any other API key.
C8_ChatIndependentOfApiKey ==
    \A i \in Handlers :
        \A key \in {"", "key-A", "key-B"} :
            inv[i].msgs = ChatOutput([Globals EXCEPT !.ApiKey = key], inv[i])

\* With an API key configured, one invocation has been answered after a
\* transport error and another with a keyboard.
C8_Witness ==
    /\ Len(ApiKey) > 0
    /\ \E i, j \in Handlers :
         /\ AnalogDone(i) /\ inv[i].resp.doErr # "nil" /\ Len(inv[i].msgs) = 1
         /\ inv[j].pc = "done" /\ Len(inv[j].msgs) = 1 /\ inv[j].msgs[1].HasReplyMarkup

\* C9 as stated: every handler invocation that has ended has issued exactly
\* one API call.
C9_ExactlyOneCall ==
    \A i \in Handlers : inv[i].pc = "done" => Len(inv[i].calls) = 1

\* C9, amended: an invocation issues at most one API call and never a second
\* one after a failure.  searchMedicineHandler on an update with a message
\* issues exactly one, and so does searcheAnalogHandler unless it panics
\* decoding the payload; both reply only after the call has returned or
\* failed.  startHandler, showMedicineHandler and searchMedicineHandler on an
\* update without a message issue none.
C9_AtMostOneCall ==
    \A i \in Handlers :
        /\ Len(inv[i].calls) <= 1
        /\ inv[i].handler \in {"startHandler", "showMedicineHandler"} =>
               inv[i].calls = <<>>
        /\ inv[i].handler = "searchMedicineHandler" =>
               IF inv[i].update.HasMessage
               THEN Len(inv[i].calls) = 1
               ELSE inv[i].calls = <<>> /\ inv[i].msgs = <<>>
        /\ inv[i].handler = "searcheAnalogHandler" =>
               IF inv[i].pc = "panicked"
               THEN inv[i].calls = <<>>
               ELSE Len(inv[i].calls) = 1
        /\ inv[i].pc = "waiting" => inv[i].msgs = <<>> /\ inv[i].resp = NoResponse
        /\ (inv[i].handler \in {"searchMedicineHandler", "searcheAnalogHandler"}
               /\ inv[i].msgs # <<>>) =>
               inv[i].pc = "done" /\ inv[i].resp # NoResponse

\* A /start has been answered without a call while a search whose call
\* failed has been answered after its one call.
C9_Witness ==
    \E i, j \in Handlers :
        /\ inv[i].handler = "startHandler" /\ inv[i].pc = "done"
        /\ inv[i].calls = <<>> /\ Len(inv[i].msgs) = 1
        /\ SearchDone(j) /\ inv[j].resp.doErr # "nil"
        /\ Len(inv[j].calls) = 1 /\ Len(inv[j].msgs) = 1

\* C10: a callback handler acknowledges the query, decodes the id without a
\* runtime failure and ends having sent exactly one message; and every
\* payload the adapter puts on a button has the colon after its prefix.
C10_CallbacksComplete ==
    /\ \A i \in Handlers :
         inv[i].handler \in {"searcheAnalogHandler", "showMedicineHandler"} =>
             /\ inv[i].pc # "panicked"
             /\ Len(inv[i].acks) = 1
             /\ inv[i].pc = "done" => Len(inv[i].msgs) = 1
    /\ \A d \in EmittedPayloads : Len(Split(d, ":")) >= 2

=============================================================================
